---- MODULE Spec2Model ----
(***************************************************************************)
(* Model of lib::input (src/lib/src/input.rs): the Input<T> builder and    *)
(* its prompt / read_line / trim / parse / validate / retry loop.          *)
(*                                                                         *)
(* Text is a sequence of one-character strings, so that trimming and       *)
(* parsing are computed character by character as the library does.        *)
(* Standard input is the environment: each call of read_line receives one  *)
(* event (a line, an I/O error, or end-of-stream), recorded in `consumed`. *)
(* Only a failure of stdout().flush() is modelled for standard output.     *)
(***************************************************************************)
EXTENDS Integers, Sequences, FiniteSets, TLC

VARIABLES
    pc,        \* position of the caller: start, built, loop, flushed, returned, panicked
    T,         \* the target type the generic Input<T> is instantiated with
    self,      \* the Input struct: [msg, predicate, err_msg]
    calls,     \* history: the builder calls made since new, in order
    closed,    \* standard input has reached end-of-stream for good
    attempts,  \* iterations of the loop of read begun so far
    consumed,  \* history: the events read_line received, one per call
    out,       \* what read wrote to standard output, one entry per print
    invoked,   \* history: the invocations of a predicate, [pred, arg]
    result,    \* <<>> until read returns, then <<value>>
    flushFailed, \* history: the last stdout().flush() returned Err
    stdin,     \* standard input: the lines waiting in it, and how many were taken
    done,      \* history: the reads completed earlier by the program, in order
    summary    \* what the program wrote to standard output after its reads

vars == <<pc, T, self, calls, closed, attempts, consumed, out, invoked, result,
          flushFailed, stdin, done, summary>>

----------------------------------------------------------------------------
(* Bounds of the model *)

MaxAttempts == 2
MaxBuilderCalls == 2
MaxReads == 2

----------------------------------------------------------------------------
(* Text *)

Digits == {"0", "1", "2", "3", "4", "5", "6", "7", "8", "9"}

DigitVal(c) ==
    CASE c = "0" -> 0 [] c = "1" -> 1 [] c = "2" -> 2 [] c = "3" -> 3
      [] c = "4" -> 4 [] c = "5" -> 5 [] c = "6" -> 6 [] c = "7" -> 7
      [] c = "8" -> 8 [] c = "9" -> 9

\* char::is_whitespace, on the characters a console line can hold here
IsWhitespace(c) == c \in {" ", "\t", "\n", "\r"}

RECURSIVE TrimStart(_)
TrimStart(s) ==
    IF s # <<>> /\ IsWhitespace(Head(s)) THEN TrimStart(Tail(s)) ELSE s

RECURSIVE TrimEnd(_)
TrimEnd(s) ==
    IF s # <<>> /\ IsWhitespace(s[Len(s)])
    THEN TrimEnd(SubSeq(s, 1, Len(s) - 1))
    ELSE s

\* str::trim_start in the place of str::trim
trim_start_only(s) == TrimStart(s)

\* the line parsed as read, with no trimming
trim_none(s) == s

\* str::trim: leading and trailing whitespace removed
trim(s) == TrimEnd(TrimStart(s))

----------------------------------------------------------------------------
(* Values, parsing and predicates *)

Types == {"String", "u32", "i32"}

\* a value of the target type: a text (s), an integer (n), or a decimal
\* number n / 10^frac with no trailing zero in its fraction
TextValue(s) == [ty |-> "String", n |-> 0, s |-> s, frac |-> 0]
IntValue(ty, n) == [ty |-> ty, n |-> n, s |-> <<>>, frac |-> 0]
FloatValue(n, frac) == [ty |-> "f32", n |-> n, s |-> <<>>, frac |-> frac]

Ok(v) == [ok |-> TRUE, val |-> <<v>>, err |-> ""]
Err(e) == [ok |-> FALSE, val |-> <<>>, err |-> e]

\* the Display text of core::num::ParseIntError and of the read_line failure
ErrEmpty == "cannot parse integer from empty string"
ErrInvalidDigit == "invalid digit found in string"
ErrIo == "stream did not contain valid UTF-8"

\* the Display text of core::num::ParseFloatError
ErrFloatEmpty == "cannot parse float from empty string"
ErrFloatInvalid == "invalid float literal"

\* the digit loop of the integer FromStr: the first character that is no
\* digit ends it with InvalidDigit.  A line here has fewer than ten digits,
\* so the overflow errors of a 32-bit target cannot arise and are left out.
RECURSIVE ParseDigits(_, _, _, _)
ParseDigits(ty, digits, acc, positive) ==
    IF digits = <<>> THEN Ok(IntValue(ty, acc))
    ELSE IF Head(digits) \notin Digits THEN Err(ErrInvalidDigit)
    ELSE ParseDigits(ty, Tail(digits),
                     IF positive THEN acc * 10 + DigitVal(Head(digits))
                                 ELSE acc * 10 - DigitVal(Head(digits)),
                     positive)

\* an integer parse that takes no minus sign, whatever the type
ParseInt_no_minus(ty, src) ==
    IF src = <<>> THEN Err(ErrEmpty)
    ELSE IF Head(src) \in {"+", "-"} /\ Len(src) = 1 THEN Err(ErrInvalidDigit)
    ELSE IF Head(src) = "+" THEN ParseDigits(ty, Tail(src), 0, TRUE)
    ELSE ParseDigits(ty, src, 0, TRUE)

\* <u32 as FromStr>::from_str and <i32 as FromStr>::from_str
ParseInt(ty, src) ==
    IF src = <<>> THEN Err(ErrEmpty)
    ELSE IF Head(src) \in {"+", "-"} /\ Len(src) = 1 THEN Err(ErrInvalidDigit)
    ELSE IF Head(src) = "+" THEN ParseDigits(ty, Tail(src), 0, TRUE)
    ELSE IF Head(src) = "-" /\ ty = "i32" THEN ParseDigits(ty, Tail(src), 0, FALSE)
    ELSE ParseDigits(ty, src, 0, TRUE)

\* the leading digits of a text, and the text with trailing zeros removed
RECURSIVE LeadingDigits(_)
LeadingDigits(s) ==
    IF s # <<>> /\ Head(s) \in Digits
    THEN <<Head(s)>> \o LeadingDigits(Tail(s))
    ELSE <<>>

RECURSIVE WithoutTrailingZeros(_)
WithoutTrailingZeros(s) ==
    IF s # <<>> /\ s[Len(s)] = "0"
    THEN WithoutTrailingZeros(SubSeq(s, 1, Len(s) - 1))
    ELSE s

RECURSIVE DigitsValue(_, _)
DigitsValue(digits, acc) ==
    IF digits = <<>> THEN acc
    ELSE DigitsValue(Tail(digits), acc * 10 + DigitVal(Head(digits)))

\* <f32 as FromStr>::from_str on a decimal literal: a sign, digits, a point,
\* digits, with a digit on one side of the point at least.  The lines here
\* hold no exponent, "inf" or "nan", and few enough digits to be exact.
ParseFloat(src) ==
    IF src = <<>> THEN Err(ErrFloatEmpty)
    ELSE LET negative == Head(src) = "-"
             body == IF Head(src) \in {"+", "-"} THEN Tail(src) ELSE src
             whole == LeadingDigits(body)
             rest == SubSeq(body, Len(whole) + 1, Len(body))
             pointed == rest # <<>> /\ Head(rest) = "."
             fraction == IF pointed THEN Tail(rest) ELSE <<>>
             kept == WithoutTrailingZeros(fraction)
             magnitude == DigitsValue(whole \o kept, 0)
         IN  IF /\ rest = <<>> \/ pointed
                /\ LeadingDigits(fraction) = fraction
                /\ Len(whole) + Len(fraction) > 0
             THEN Ok(FloatValue(IF negative THEN -magnitude ELSE magnitude, Len(kept)))
             ELSE Err(ErrFloatInvalid)

\* a text parse that refuses the empty text
parse_nonempty_text(ty, src) ==
    IF ty = "String"
    THEN IF src = <<>> THEN Err(ErrEmpty) ELSE Ok(TextValue(src))
    ELSE IF ty = "f32" THEN ParseFloat(src)
    ELSE ParseInt(ty, src)

\* trimmed.parse::<T>(): <String as FromStr>::from_str never fails
parse(ty, src) ==
    IF ty = "String" THEN Ok(TextValue(src))
    ELSE IF ty = "f32" THEN ParseFloat(src)
    ELSE ParseInt(ty, src)

\* the closures a caller passes to validate, by name; "always" is |_| true
Predicates(ty) ==
    IF ty = "String" THEN {"len_gt_3", "nonempty"} ELSE {"positive", "adult"}

MinNameLen == 3
MinAge == 18

Apply(p, v) ==
    CASE p = "always"   -> TRUE
      [] p = "positive" -> v.n > 0
      [] p = "adult"    -> v.n > MinAge
      [] p = "len_gt_3" -> Len(v.s) > MinNameLen
      [] p = "nonempty" -> Len(v.s) > 0

----------------------------------------------------------------------------
(* Standard input *)

Line(text) == [kind |-> "line", text |-> text]
IoError == [kind |-> "ioerr", text |-> <<>>]
Eof == [kind |-> "eof", text |-> <<>>]

\* the lines a user types, without their newline: nothing, blanks, numbers
\* with and without surrounding blanks, a negative number, words
Lines ==
    { <<>>,
      <<" ", " ">>,
      <<"7">>,
      <<" ", "7", " ">>,
      <<"0">>,
      <<"-", "3">>,
      <<" ", "4", "2">>,
      <<"a", "b", "c">>,
      <<"h", "e", "l", "l", "o">>,
      <<" ", " ", "h", "e", "l", "l", "o", " ", " ">> }

\* what one call of read_line can receive: a line typed at the console, a
\* failed read, or end-of-stream; after end-of-stream only end-of-stream
Events(isClosed) ==
    IF isClosed THEN {Eof}
    ELSE {Line(t) : t \in Lines} \cup {IoError, Eof}

\* standard input at a console: nothing is waiting, the user types
Console == [script |-> <<>>, pos |-> 0, console |-> TRUE]

\* standard input redirected from a file or a pipe that holds the lines of
\* script, and ends after them
Piped(script) == [script |-> script, pos |-> 0, console |-> FALSE]

\* what the next call of read_line receives: the next waiting line; with
\* none waiting, whatever happens at a console, or the end of a pipe
Incoming ==
    IF stdin.pos < Len(stdin.script) THEN {stdin.script[stdin.pos + 1]}
    ELSE IF stdin.console THEN Events(closed)
    ELSE {Eof}

\* standard input after one call of read_line
Taken(in) ==
    IF in.pos < Len(in.script) THEN [in EXCEPT !.pos = in.pos + 1] ELSE in

\* the model stops a read after MaxAttempts attempts, unless lines are
\* still waiting in standard input
MayAttempt == ~(attempts >= MaxAttempts /\ stdin.pos >= Len(stdin.script))

\* the Result of read_line dropped: a failed read leaves the buffer empty
ReadLine_error_ignored(ev) ==
    IF ev.kind = "line" THEN Ok(TextValue(ev.text \o <<"\n">>))
    ELSE Ok(TextValue(<<>>))

\* end-of-stream reported as a failed read
ReadLine_eof_fails(ev) ==
    IF ev.kind = "line" THEN Ok(TextValue(ev.text \o <<"\n">>))
    ELSE Err(ErrIo)

\* stdin().read_line(&mut value): the line with its newline appended to the
\* empty buffer; Ok(0) with the buffer left empty at end-of-stream
ReadLine(ev) ==
    CASE ev.kind = "line"  -> Ok(TextValue(ev.text \o <<"\n">>))
      [] ev.kind = "eof"   -> Ok(TextValue(<<>>))
      [] ev.kind = "ioerr" -> Err(ErrIo)

\* fn _read<T>() -> Result<T, Box<dyn Error>>
_read(ty, ev) ==
    LET value == ReadLine(ev)
    IN  IF ~value.ok THEN Err(value.err)
        ELSE parse(ty, trim(value.val[1].s))

----------------------------------------------------------------------------
(* The Input<T> builder *)

Prompts == {"Nombre", "Edad"}

\* the texts a caller passes to err_msg
ErrMsgs == {"Debe ser un número positivo", "Ha de contener como mínimo 4 letras"}

DefaultErrMsg_english == "Invalid input"

DefaultErrMsg == "Entrada inválida"

\* a default predicate that is not |_| true
DefaultPredicate_strict == "positive"

\* Box::new(|_| true)
DefaultPredicate == "always"

NoInput == [msg |-> "", predicate |-> "", err_msg |-> ""]

\* pub fn new(msg: &'a str) -> Self
new(msg) ==
    /\ pc = "start"
    /\ self' = [msg |-> msg, predicate |-> DefaultPredicate,
                 err_msg |-> DefaultErrMsg]
    /\ pc' = "built"
    /\ UNCHANGED <<T, calls, closed, attempts, consumed, out, invoked, result,
                   flushFailed, stdin, done, summary>>

\* validate that keeps a predicate set earlier
validate_first_wins(predicate) ==
    /\ pc = "built"
    /\ Len(calls) < MaxBuilderCalls
    /\ self' = IF self.predicate = DefaultPredicate
               THEN [self EXCEPT !.predicate = predicate]
               ELSE self
    /\ calls' = Append(calls, [op |-> "validate", arg |-> predicate])
    /\ UNCHANGED <<pc, T, closed, attempts, consumed, out, invoked, result,
                   flushFailed, stdin, done, summary>>

\* pub fn validate(mut self, predicate: impl Fn(&T) -> bool + 'a) -> Self
validate(predicate) ==
    /\ pc = "built"
    /\ Len(calls) < MaxBuilderCalls
    /\ self' = [self EXCEPT !.predicate = predicate]
    /\ calls' = Append(calls, [op |-> "validate", arg |-> predicate])
    /\ UNCHANGED <<pc, T, closed, attempts, consumed, out, invoked, result,
                   flushFailed, stdin, done, summary>>

\* err_msg that rebuilds the struct from its prompt
err_msg_rebuilds(text) ==
    /\ pc = "built"
    /\ Len(calls) < MaxBuilderCalls
    /\ self' = [msg |-> self.msg, predicate |-> DefaultPredicate, err_msg |-> text]
    /\ calls' = Append(calls, [op |-> "err_msg", arg |-> text])
    /\ UNCHANGED <<pc, T, closed, attempts, consumed, out, invoked, result,
                   flushFailed, stdin, done, summary>>

\* pub fn err_msg(mut self, err_msg: &'a str) -> Self
err_msg(text) ==
    /\ pc = "built"
    /\ Len(calls) < MaxBuilderCalls
    /\ self' = [self EXCEPT !.err_msg = text]
    /\ calls' = Append(calls, [op |-> "err_msg", arg |-> text])
    /\ UNCHANGED <<pc, T, closed, attempts, consumed, out, invoked, result,
                   flushFailed, stdin, done, summary>>

----------------------------------------------------------------------------
(* pub fn read(&self) -> T *)

\* one write to standard output, tagged with the attempt that made it
Written(k, text) == [attempt |-> k, text |-> text]

\* print!("{}: ", self.msg)
PromptText(cfg) == <<cfg.msg, ": ">>

\* println!("{}", self.err_msg)
RejectionLine_bare(cfg) == <<cfg.err_msg, "\n">>

\* println!("Error: {}", self.err_msg)
RejectionLine(cfg) == <<"Error: ", cfg.err_msg, "\n">>

\* the format error printed with the prefix of the rejection
FormatErrorLine_same_prefix(e) == <<"Error: ", e, "\n">>

\* println!("Error de formato: {}", e)
FormatErrorLine(e) == <<"Error de formato: ", e, "\n">>

\* the Result of flush dropped
AfterFlush_unchecked(flushOk) == "flushed"

\* stdout().flush().expect("Failed to flush stdout"): expect panics on Err
AfterFlush(flushOk) == IF flushOk THEN "flushed" ELSE "panicked"

\* the guard of the first arm left out: every parsed value returns
Arm_unguarded(cfg, r) == IF r.ok THEN "return" ELSE "format"

\* the Err arm merged into the rejection arm
Arm_no_format(cfg, r) ==
    IF r.ok /\ Apply(cfg.predicate, r.val[1]) THEN "return" ELSE "reject"

\* the arm of the match that a result of _read selects
Arm(cfg, r) ==
    IF r.ok /\ Apply(cfg.predicate, r.val[1]) THEN "return"
    ELSE IF r.ok THEN "reject"
    ELSE "format"

\* the print of the prompt hoisted out of the loop
read_prompt_printed_once ==
    /\ pc \in {"built", "loop"}
    /\ MayAttempt
    /\ attempts' = attempts + 1
    /\ out' = IF pc = "built"
              THEN Append(out, Written(attempts + 1, PromptText(self)))
              ELSE out
    /\ \E flushOk \in BOOLEAN :
          /\ flushFailed' = ~flushOk
          /\ pc' = AfterFlush(flushOk)
    /\ UNCHANGED <<T, self, calls, closed, consumed, invoked, result,
                   stdin, done, summary>>

\* the struct after a call of read, were read to move the predicate out
Borrowed_predicate_taken(cfg) == [cfg EXCEPT !.predicate = DefaultPredicate]

\* read(&self): the struct is borrowed, and is the same after the call
Borrowed(cfg) == cfg

\* a loop that gives up after three attempts
read_prompt_three_tries ==
    /\ pc \in {"built", "loop"}
    /\ MayAttempt
    /\ attempts < 3
    /\ attempts' = attempts + 1
    /\ out' = Append(out, Written(attempts + 1, PromptText(self)))
    /\ \E flushOk \in BOOLEAN :
          /\ flushFailed' = ~flushOk
          /\ pc' = AfterFlush(flushOk)
    /\ UNCHANGED <<T, self, calls, closed, consumed, invoked, result,
                   stdin, done, summary>>

\* the head of an iteration: the prompt is printed and flushed
read_prompt ==
    /\ pc \in {"built", "loop"}
    /\ MayAttempt
    /\ attempts' = attempts + 1
    /\ out' = Append(out, Written(attempts + 1, PromptText(self)))
    /\ \E flushOk \in BOOLEAN :
          /\ flushFailed' = ~flushOk
          /\ pc' = AfterFlush(flushOk)
    /\ UNCHANGED <<T, self, calls, closed, consumed, invoked, result,
                   stdin, done, summary>>

\* the rest of the iteration: match _read::<T>() { ... }
read_match ==
    /\ pc = "flushed"
    /\ \E ev \in Incoming :
          LET r == _read(T, ev)
              arm == Arm(self, r)
          IN  /\ consumed' = Append(consumed, ev)
              /\ stdin' = Taken(stdin)
              /\ closed' = (closed \/ ev.kind = "eof")
              /\ invoked' = IF r.ok
                            THEN Append(invoked, [attempt |-> attempts,
                                                  pred |-> self.predicate,
                                                  arg |-> r.val[1]])
                            ELSE invoked
              /\ result' = IF arm = "return" THEN r.val ELSE result
              /\ out' = CASE arm = "return" -> out
                          [] arm = "reject" ->
                                Append(out, Written(attempts, RejectionLine(self)))
                          [] arm = "format" ->
                                Append(out, Written(attempts, FormatErrorLine(r.err)))
              /\ pc' = IF arm = "return" THEN "returned" ELSE "loop"
    /\ self' = Borrowed(self)
    /\ UNCHANGED <<T, calls, attempts, flushFailed, done, summary>>

\* the record of a read that has returned
Completed ==
    [T |-> T, self |-> self, consumed |-> consumed, out |-> out,
     invoked |-> invoked, result |-> result]

\* the caller calls read once more on the struct it has just read from
read_again ==
    /\ pc = "returned"
    /\ Len(done) + 1 < MaxReads
    /\ done' = Append(done, Completed)
    /\ attempts' = 0
    /\ consumed' = <<>>
    /\ out' = <<>>
    /\ invoked' = <<>>
    /\ result' = <<>>
    /\ pc' = "loop"
    /\ UNCHANGED <<T, self, calls, closed, flushFailed, stdin, summary>>

----------------------------------------------------------------------------
(* The program: a caller instantiates Input<T>, builds it and reads *)

Init ==
    /\ pc = "start"
    /\ T \in Types
    /\ self = NoInput
    /\ calls = <<>>
    /\ closed = FALSE
    /\ attempts = 0
    /\ consumed = <<>>
    /\ out = <<>>
    /\ invoked = <<>>
    /\ result = <<>>
    /\ flushFailed = FALSE
    /\ stdin = Console
    /\ done = <<>>
    /\ summary = <<>>

Next ==
    \/ \E msg \in Prompts : new(msg)
    \/ \E predicate \in Predicates(T) : validate(predicate)
    \/ \E text \in ErrMsgs : err_msg(text)
    \/ read_prompt
    \/ read_match

Spec == Init /\ [][Next]_vars

----------------------------------------------------------------------------
(* The same caller with standard input redirected from a file *)

\* the lines "-3", "0", "abc", "5"
Scenario ==
    << Line(<<"-", "3">>), Line(<<"0">>), Line(<<"a", "b", "c">>), Line(<<"5">>) >>

\* the files standard input is redirected from
Scripts ==
    { Scenario,
      << Line(<<"a", "b", "c">>), Line(<<" ", "7", " ">>), Line(<<"h", "e", "l", "l", "o">>) >>,
      << Line(<<" ", "4", "2">>), Line(<<"7">>), Line(<<"5">>) >>,
      << Line(<<"0">>) >>,
      << >> }

\* the texts a caller passes to err_msg here; the second is also the text
\* of a parse error, the third is made to look like a format error
ScriptErrMsgs ==
    { "must be positive",
      "invalid digit found in string",
      "de formato: invalid digit found in string" }

InitScript ==
    /\ pc = "start"
    /\ T \in Types
    /\ self = NoInput
    /\ calls = <<>>
    /\ closed = FALSE
    /\ attempts = 0
    /\ consumed = <<>>
    /\ out = <<>>
    /\ invoked = <<>>
    /\ result = <<>>
    /\ flushFailed = FALSE
    /\ stdin \in {Piped(script) : script \in Scripts}
    /\ done = <<>>
    /\ summary = <<>>

NextScript ==
    \/ \E msg \in Prompts : new(msg)
    \/ \E predicate \in Predicates(T) : validate(predicate)
    \/ \E text \in ScriptErrMsgs : err_msg(text)
    \/ read_prompt
    \/ read_match
    \/ read_again

SpecScript == InitScript /\ [][NextScript]_vars

\* the program runs: a call of read goes on as long as it can
FairSpecScript ==
    SpecScript /\ WF_vars(read_prompt) /\ WF_vars(read_match)

----------------------------------------------------------------------------
(* The demonstration program, src/t1e1/src/main.rs *)

MaxMainLines == 5

\* the four statements let x = Input::<T>::new(msg).read(), in order
Program_age_first ==
    << [T |-> "String", msg |-> "Enter ciclo"],
       [T |-> "u32",    msg |-> "Enter age"],
       [T |-> "String", msg |-> "Enter name"],
       [T |-> "f32",    msg |-> "Enter weight"] >>

Program ==
    << [T |-> "String", msg |-> "Enter ciclo"],
       [T |-> "String", msg |-> "Enter name"],
       [T |-> "u32",    msg |-> "Enter age"],
       [T |-> "f32",    msg |-> "Enter weight"] >>

\* the lines a user of the program types: a word, an age, a weight with a
\* point, a weight with a comma
MainLines ==
    { <<"A", "n", "a">>,
      <<"2", "5">>,
      <<"3", ".", "1", "4">>,
      <<"3", ",", "1", "4">> }

RECURSIVE MainScripts(_)
MainScripts(n) ==
    IF n = 0 THEN {<<>>}
    ELSE LET shorter == MainScripts(n - 1)
         IN  shorter \cup {Append(script, Line(text)) : script \in shorter, text \in MainLines}

\* the reads completed once the read in progress, if any, has returned
Returned == IF pc = "returned" THEN Append(done, Completed) ELSE done

\* let x = Input::<T>::new(msg) ... : the next statement of main begins,
\* the value of the statement before it bound
main_let ==
    /\ pc \in {"start", "returned"}
    /\ Len(Returned) < Len(Program)
    /\ done' = Returned
    /\ T' = Program[Len(Returned) + 1].T
    /\ self' = [msg |-> Program[Len(Returned) + 1].msg,
                predicate |-> DefaultPredicate, err_msg |-> DefaultErrMsg]
    /\ calls' = <<>>
    /\ attempts' = 0
    /\ consumed' = <<>>
    /\ out' = <<>>
    /\ invoked' = <<>>
    /\ result' = <<>>
    /\ pc' = "built"
    /\ UNCHANGED <<closed, flushFailed, stdin, summary>>

\* println!("Nombre: {name}\nEdad: {age}\nPeso: {weight}\nCiclo: {ciclo}")
SummaryText(ciclo, name, age, weight) ==
    <<"Nombre: ", name, "\nEdad: ", age, "\nPeso: ", weight, "\nCiclo: ", ciclo, "\n">>

main_println ==
    /\ pc = "returned"
    /\ Len(Returned) = Len(Program)
    /\ done' = Returned
    /\ summary' = Append(summary,
                         SummaryText(Returned[1].result[1], Returned[2].result[1],
                                     Returned[3].result[1], Returned[4].result[1]))
    /\ pc' = "exit"
    /\ attempts' = 0
    /\ consumed' = <<>>
    /\ out' = <<>>
    /\ invoked' = <<>>
    /\ result' = <<>>
    /\ UNCHANGED <<T, self, calls, closed, flushFailed, stdin>>

InitMain ==
    /\ pc = "start"
    /\ T = "String"
    /\ self = NoInput
    /\ calls = <<>>
    /\ closed = FALSE
    /\ attempts = 0
    /\ consumed = <<>>
    /\ out = <<>>
    /\ invoked = <<>>
    /\ result = <<>>
    /\ flushFailed = FALSE
    /\ stdin \in {Piped(script) : script \in MainScripts(MaxMainLines)}
    /\ done = <<>>
    /\ summary = <<>>

NextMain ==
    \/ main_let
    \/ read_prompt
    \/ read_match
    \/ main_println

SpecMain == InitMain /\ [][NextMain]_vars

----------------------------------------------------------------------------
(* Reading the histories *)

Attempts == 1..Len(consumed)

\* what _read made of the k-th line read
Outcome(k) == _read(T, consumed[k])

\* the value a typed line stands for: its text trimmed and parsed
LineValue(ev) == parse(T, trim(ev.text))

\* the predicate in effect accepts the value of the typed line
GoodLine(ev) ==
    /\ ev.kind = "line"
    /\ LineValue(ev).ok
    /\ Apply(self.predicate, LineValue(ev).val[1])

\* the writes of attempt k, the prompt apart
PromptsOf(k) == {i \in DOMAIN out : out[i].attempt = k /\ out[i].text = PromptText(self)}
MessagesOf(k) == {i \in DOMAIN out : out[i].attempt = k /\ out[i].text # PromptText(self)}
InvocationsOf(k) == {i \in DOMAIN invoked : invoked[i].attempt = k}

\* attempt k is over and the loop of read goes on with the next attempt
Retries(k) == k < Len(consumed) \/ (attempts = k /\ pc = "loop") \/ attempts > k

----------------------------------------------------------------------------
(* C1: read returns only at an attempt whose trimmed line parsed as T and  *)
(* whose parsed value the configured predicate accepted, and what it       *)
(* returns is that parsed value: every returned value satisfies the        *)
(* predicate in effect.                                                    *)
C1_ReturnsOnlyParsedAndAccepted ==
    /\ result # <<>> <=> pc = "returned"
    /\ pc = "returned" =>
          /\ Len(consumed) = attempts
          /\ Outcome(attempts).ok
          /\ result = Outcome(attempts).val
          /\ Apply(self.predicate, result[1])
          /\ result[1].ty = T

\* read has returned at a second attempt, under a predicate of the caller
C1_Witness ==
    /\ pc = "returned"
    /\ self.predicate # "always"
    /\ attempts = 2

(* C2: when the first line typed is parseable and accepted, read returns   *)
(* its value after one attempt: one prompt written, one line consumed, no  *)
(* error message.  In general read returns the value of the first line     *)
(* that is parseable and accepted, having consumed the lines up to it.     *)
C2_ReturnsFirstGoodLine ==
    \A k \in Attempts :
        GoodLine(consumed[k]) =>
            /\ k = Len(consumed)
            /\ pc = "returned"
            /\ result = LineValue(consumed[k]).val
            /\ attempts = k
            /\ \A j \in 1..k : Cardinality(PromptsOf(j)) = 1
            /\ MessagesOf(k) = {}
            /\ k = 1 => Len(out) = 1

\* read has returned the integer of a line typed with blanks around it,
\* after an earlier line that was no number
C2_Witness ==
    /\ pc = "returned"
    /\ T = "u32"
    /\ Len(consumed) = 2
    /\ consumed[1] = Line(<<"a", "b", "c">>)
    /\ consumed[2] = Line(<<" ", "7", " ">>)
    /\ result = <<IntValue("u32", 7)>>

Rejected(k) == Outcome(k).ok /\ ~Apply(self.predicate, Outcome(k).val[1])

(* C4 as stated: for a parseable line whose value the predicate rejects,   *)
(* the attempt writes exactly the configured rejection message and a       *)
(* newline, with nothing added, and the loop goes on.                      *)
C4_Original_MessageVerbatim ==
    \A k \in Attempts :
        Rejected(k) =>
            /\ Cardinality(MessagesOf(k)) = 1
            /\ \A i \in MessagesOf(k) : out[i].text = <<self.err_msg, "\n">>
            /\ Retries(k)

(* C4 amended: for a parseable line whose value the predicate rejects, the *)
(* attempt writes "Error: " followed by the configured rejection message   *)
(* and a newline, and the loop goes on with a new attempt.                 *)
C4_MessageAfterErrorPrefix ==
    \A k \in Attempts :
        Rejected(k) =>
            /\ Cardinality(MessagesOf(k)) = 1
            /\ \A i \in MessagesOf(k) : out[i].text = <<"Error: ", self.err_msg, "\n">>
            /\ Retries(k)

\* a zero rejected by "positive" under a message of the caller
C4_Witness ==
    /\ T = "u32"
    /\ self.predicate = "positive"
    /\ self.err_msg = "Debe ser un número positivo"
    /\ Len(consumed) = 1
    /\ consumed[1] = Line(<<"0">>)
    /\ pc = "loop"

OpsCalled == {calls[i].op : i \in DOMAIN calls}

(* C5 as stated: a configuration whose rejection message was never set has *)
(* the literal "Invalid input" as its message, and that literal is shown   *)
(* when its predicate rejects a value.                                     *)
C5_Original_DefaultInvalidInput ==
    (pc # "start" /\ "err_msg" \notin OpsCalled) =>
        /\ self.err_msg = "Invalid input"
        /\ \A k \in Attempts : Rejected(k) =>
              \E i \in MessagesOf(k) : out[i].text[2] = "Invalid input"

(* C5 amended: a configuration whose rejection message was never set has   *)
(* the literal "Entrada inválida" as its message, and a rejection by its   *)
(* predicate shows "Error: Entrada inválida".                              *)
C5_DefaultEntradaInvalida ==
    (pc # "start" /\ "err_msg" \notin OpsCalled) =>
        /\ self.err_msg = "Entrada inválida"
        /\ \A k \in Attempts : Rejected(k) =>
              \E i \in MessagesOf(k) :
                  out[i].text = <<"Error: ", "Entrada inválida", "\n">>

\* a rejection under validate alone: the message is the default one
C5_Witness ==
    /\ calls = <<[op |-> "validate", arg |-> "nonempty"]>>
    /\ Len(consumed) = 1
    /\ consumed[1] = Line(<<" ", " ">>)
    /\ Len(out) = 2
    /\ pc = "loop"

(* C6: a configuration built with no validate call accepts every parsed    *)
(* value: read never prints the rejection message and returns at the first *)
(* attempt whose line parses, whatever the lines are.                      *)
C6_NoValidatorAcceptsAll ==
    (pc # "start" /\ "validate" \notin OpsCalled) =>
        /\ \A i \in DOMAIN out : out[i].text # RejectionLine(self)
        /\ invoked # <<>> => pc = "returned"
        /\ \A k \in Attempts :
              Outcome(k).ok =>
                  /\ k = Len(consumed)
                  /\ pc = "returned"
                  /\ result = Outcome(k).val

\* no validate call: a word is refused as a number, then zero is returned
C6_Witness ==
    /\ "validate" \notin OpsCalled
    /\ T = "u32"
    /\ Len(consumed) = 2
    /\ consumed[1] = Line(<<"h", "e", "l", "l", "o">>)
    /\ consumed[2] = Line(<<"0">>)
    /\ result = <<IntValue("u32", 0)>>

\* the argument of the last call of op, or the value new gave
RECURSIVE LastArg(_, _, _)
LastArg(cs, op, initial) ==
    IF cs = <<>> THEN initial
    ELSE IF cs[Len(cs)].op = op THEN cs[Len(cs)].arg
    ELSE LastArg(SubSeq(cs, 1, Len(cs) - 1), op, initial)

FormatErrorPath(k) ==
    /\ Cardinality(MessagesOf(k)) = 1
    /\ \A i \in MessagesOf(k) :
          /\ Len(out[i].text) = 3
          /\ out[i].text[1] = "Error de formato: "
          /\ out[i].text[3] = "\n"
    /\ InvocationsOf(k) = {}
    /\ Retries(k)

(* C8 as stated: a failure to obtain the line, end-of-stream or I/O error, *)
(* takes the path of a parse failure for every target type: format-error   *)
(* message, predicate not invoked, nothing returned, a new attempt.        *)
C8_Original_EofAndErrorAsFormatError ==
    \A k \in Attempts :
        consumed[k].kind \in {"eof", "ioerr"} => FormatErrorPath(k)

(* C8 amended: an I/O error of read_line takes the path of a parse failure *)
(* for every target type: format-error message, predicate not invoked,     *)
(* nothing returned or propagated, a new attempt.  End-of-stream is no     *)
(* failure: it is read as the empty line, which takes that path for an     *)
(* integer target only; for a text target it parses as the empty text and  *)
(* the predicate is invoked on it.                                         *)
C8_ErrorAsFormatErrorEofAsEmptyLine ==
    \A k \in Attempts :
        /\ consumed[k].kind = "ioerr" =>
              /\ FormatErrorPath(k)
              /\ \A i \in MessagesOf(k) : out[i].text[2] = ErrIo
        /\ (consumed[k].kind = "eof" /\ T # "String") =>
              /\ FormatErrorPath(k)
              /\ \A i \in MessagesOf(k) :
                    out[i].text[2] = "cannot parse integer from empty string"
        /\ (consumed[k].kind = "eof" /\ T = "String") =>
              /\ Cardinality(InvocationsOf(k)) = 1
              /\ \A i \in InvocationsOf(k) : invoked[i].arg = TextValue(<<>>)
              /\ \A i \in MessagesOf(k) : out[i].text[1] # "Error de formato: "

\* a text target: a failed read is reported, then end-of-stream is read as
\* the empty text and handed to the predicate
C8_Witness ==
    /\ T = "String"
    /\ Len(consumed) = 2
    /\ consumed[1] = IoError
    /\ consumed[2] = Eof
    /\ Len(invoked) = 1

(* C9 as stated: once standard input is closed for good, read never        *)
(* returns, for any target type and any predicate.                         *)
C9_Original_NeverReturnsOnceClosed ==
    closed => pc # "returned"

\* the attempts that read end-of-stream
EofAttempts == {k \in Attempts : consumed[k].kind = "eof"}

(* C9 amended: once standard input is closed for good, read never returns  *)
(* when the target is an integer or the predicate rejects the empty text:  *)
(* each attempt then prints one error line (the format error for an        *)
(* integer, the rejection message for a text) and the loop goes on; for a  *)
(* text target whose predicate accepts the empty text, read returns the    *)
(* empty text at the first attempt made on the closed stream.              *)
C9_ClosedStreamReturnsOnlyEmptyText ==
    closed =>
        IF T = "String" /\ Apply(self.predicate, TextValue(<<>>))
        THEN /\ pc = "returned"
             /\ result = <<TextValue(<<>>)>>
             /\ EofAttempts = {Len(consumed)}
        ELSE /\ pc # "returned"
             /\ result = <<>>
             /\ \A k \in EofAttempts :
                   /\ Cardinality(MessagesOf(k)) = 1
                   /\ \A i \in MessagesOf(k) :
                         out[i].text = IF T = "String"
                                       THEN RejectionLine(self)
                                       ELSE FormatErrorLine(ErrEmpty)
                   /\ Retries(k)

\* a text target with no validator returns the empty text at end-of-stream
C9_Witness ==
    /\ closed
    /\ T = "String"
    /\ self.predicate = "always"
    /\ pc = "returned"
    /\ result = <<TextValue(<<>>)>>

(* C10: when flushing the prompt fails, the process stops there: no line   *)
(* is read for that attempt, the predicate is not invoked, no value is     *)
(* returned and no further attempt is made.                                *)
C10_FlushFailureIsFatal ==
    flushFailed =>
        /\ pc = "panicked"
        /\ Len(consumed) = attempts - 1
        /\ InvocationsOf(attempts) = {}
        /\ result = <<>>
        /\ ~ENABLED Next

\* the flush of the second prompt fails, after one rejected line
C10_Witness ==
    /\ flushFailed
    /\ attempts = 2
    /\ Len(consumed) = 1
    /\ Len(invoked) = 1

\* the predicate was handed, at attempt k, exactly the value v
HandedTo(k, v) ==
    /\ Cardinality(InvocationsOf(k)) = 1
    /\ \A i \in InvocationsOf(k) : invoked[i].arg = v

(* C15: whitespace is removed before parsing: the outcome of an attempt on *)
(* a line L is the outcome on trim(L); " 7 " and "7" give the same         *)
(* integer 7, " 42" with its newline parses as 42, and "  hello  " gives   *)
(* the text "hello".                                                       *)
C15_TrimBeforeParse ==
    \A k \in Attempts :
        consumed[k].kind = "line" =>
            LET L == consumed[k].text
            IN  /\ Outcome(k) = _read(T, Line(trim(L)))
                /\ Outcome(k).ok => HandedTo(k, Outcome(k).val[1])
                /\ (T # "String" /\ L \in {<<"7">>, <<" ", "7", " ">>}) =>
                      HandedTo(k, IntValue(T, 7))
                /\ (T # "String" /\ L = <<" ", "4", "2">>) =>
                      HandedTo(k, IntValue(T, 42))
                /\ (T = "String" /\ L = <<" ", " ", "h", "e", "l", "l", "o", " ", " ">>) =>
                      HandedTo(k, TextValue(<<"h", "e", "l", "l", "o">>))

\* " 7 " then " 42" typed for an integer that must exceed 18: 7 is
\* rejected, 42 is returned
C15_Witness ==
    /\ T = "u32"
    /\ self.predicate = "adult"
    /\ Len(consumed) = 2
    /\ consumed[1] = Line(<<" ", "7", " ">>)
    /\ consumed[2] = Line(<<" ", "4", "2">>)
    /\ result = <<IntValue("u32", 42)>>

\* a write of the prompt, and a write of a failure message
IsPrompt(w) == w.text = PromptText(self)
IsFailureMessage(w) ==
    /\ Len(w.text) = 3
    /\ w.text[1] \in {"Error: ", "Error de formato: "}
    /\ w.text[3] = "\n"

\* the input lines taken from the stream so far: a read_line that met
\* end-of-stream took none
LinesConsumed == Cardinality({k \in Attempts : consumed[k].kind # "eof"})

\* prompt and failure message alternate, one prompt per attempt, written
\* before read_line is called, and one message per failed attempt
Alternation ==
    attempts > 0 =>
        /\ \A i \in DOMAIN out :
              IF i % 2 = 1
              THEN IsPrompt(out[i]) /\ out[i].attempt = (i + 1) \div 2
              ELSE IsFailureMessage(out[i]) /\ out[i].attempt = i \div 2
        /\ pc \in {"flushed", "panicked"} =>
              Len(out) = 2 * attempts - 1 /\ Len(consumed) = attempts - 1
        /\ pc = "loop" =>
              Len(out) = 2 * attempts /\ Len(consumed) = attempts
        /\ pc = "returned" =>
              /\ Len(out) = 2 * attempts - 1
              /\ Len(consumed) = attempts
              /\ Cardinality({i \in DOMAIN out : IsPrompt(out[i])}) = attempts
              /\ Cardinality({i \in DOMAIN out : IsFailureMessage(out[i])}) = attempts - 1

(* C17 as stated: within one read the output alternates: every attempt     *)
(* writes the prompt once, before its line is read; every failed attempt   *)
(* writes one message after its line is read; the successful attempt       *)
(* writes none.  When read returns after n attempts it has written n       *)
(* prompts and n-1 failure messages and consumed n input lines.            *)
C17_Original_ConsumedOneLinePerAttempt ==
    /\ Alternation
    /\ pc = "returned" => LinesConsumed = attempts

(* C17 amended: the output alternates as stated, and when read returns     *)
(* after n attempts it has written n prompts and n-1 failure messages and  *)
(* called read_line n times; it has consumed one input line per call,      *)
(* except that a call that met end-of-stream consumed none.                *)
C17_PromptMessageAlternation ==
    /\ Alternation
    /\ pc = "returned" =>
          /\ Len(consumed) = attempts
          /\ LinesConsumed = attempts - Cardinality(EofAttempts)
          /\ EofAttempts # {} => (LinesConsumed = attempts - 1 /\ T = "String")

\* read has returned at its second attempt, which met end-of-stream after
\* a failed read: two prompts, one message
C17_Witness ==
    /\ pc = "returned"
    /\ attempts = 2
    /\ Len(out) = 3
    /\ consumed[1] = IoError
    /\ consumed[2] = Eof

\* the builder call that led to this state, when the step was one
LastCall == calls[Len(calls)]

(* C18: a builder call changes its own field only and does no I/O:         *)
(* validate replaces the predicate and leaves prompt and message alone,    *)
(* err_msg replaces the message and leaves prompt and predicate alone; a   *)
(* validate and an err_msg give the same configuration in either order;    *)
(* neither writes a prompt nor consumes a line.                            *)
C18_BuilderFrame ==
    /\ [][ calls' # calls =>
             /\ self'.msg = self.msg
             /\ LastCall'.op = "validate" =>
                   /\ self'.predicate = LastCall'.arg
                   /\ self'.err_msg = self.err_msg
             /\ LastCall'.op = "err_msg" =>
                   /\ self'.err_msg = LastCall'.arg
                   /\ self'.predicate = self.predicate
             /\ UNCHANGED <<pc, T, closed, attempts, consumed, out, invoked,
                            result, flushFailed, stdin, done, summary>> ]_vars
    /\ [] ( (Len(calls) = 2 /\ calls[1].op # calls[2].op) =>
              \E p \in Predicates(T), m \in ErrMsgs :
                  /\ {calls[1], calls[2]} = {[op |-> "validate", arg |-> p],
                                             [op |-> "err_msg", arg |-> m]}
                  /\ self.predicate = p
                  /\ self.err_msg = m )

\* err_msg was called before validate, and the read that followed printed
\* the message of the one and used the predicate of the other
C18_Witness ==
    /\ Len(calls) = 2
    /\ calls[1].op = "err_msg"
    /\ calls[2].op = "validate"
    /\ Len(out) = 2
    /\ out[2].text = <<"Error: ", calls[1].arg, "\n">>
    /\ invoked[1].pred = calls[2].arg

\* the text is empty or blank
IsBlank(text) == \A i \in DOMAIN text : IsWhitespace(text[i])

(* C19: for a text target with no validator, a line that is empty or holds *)
(* only whitespace is parseable and accepted: read returns the empty text  *)
(* at that attempt, printing no error message and making no retry.         *)
C19_BlankLineIsEmptyText ==
    (T = "String" /\ "validate" \notin OpsCalled) =>
        \A k \in Attempts :
            (consumed[k].kind = "line" /\ IsBlank(consumed[k].text)) =>
                /\ k = Len(consumed)
                /\ attempts = k
                /\ pc = "returned"
                /\ result = <<TextValue(<<>>)>>
                /\ MessagesOf(k) = {}

\* two blanks typed after a failed read: the empty text is returned
C19_Witness ==
    /\ T = "String"
    /\ calls = <<>>
    /\ Len(consumed) = 2
    /\ consumed[1] = IoError
    /\ consumed[2] = Line(<<" ", " ">>)
    /\ pc = "returned"
    /\ result = <<TextValue(<<>>)>>

\* the failure message written by attempt k is the line text
Wrote(k, text) ==
    /\ Cardinality(MessagesOf(k)) = 1
    /\ \A i \in MessagesOf(k) : out[i].text = text

\* the first read of an integer under value > 0 and "must be positive",
\* with the lines "-3", "0", "abc", "5" waiting in standard input
InScenario ==
    /\ T \in {"u32", "i32"}
    /\ pc \notin {"start", "built"}
    /\ done = <<>>
    /\ self.predicate = "positive"
    /\ self.err_msg = "must be positive"
    /\ stdin.script = Scenario

\* what the scenario shows from its second line on
ScenarioTail ==
    /\ Len(consumed) >= 2 => Wrote(2, <<"Error: ", "must be positive", "\n">>)
    /\ Len(consumed) >= 3 =>
          Wrote(3, <<"Error de formato: ", "invalid digit found in string", "\n">>)
    /\ Len(consumed) >= 4 =>
          /\ pc = "returned"
          /\ result = <<IntValue(T, 5)>>
          /\ attempts = 4
          /\ Len(consumed) = 4
          /\ MessagesOf(4) = {}

(* C11 as stated: with an integer target, predicate value > 0 and message  *)
(* "must be positive", the lines "-3", "0", "abc", "5" produce in order    *)
(* the rejection message for "-3", the rejection message for "0", a        *)
(* format-error message for "abc", and then read returns 5 after exactly   *)
(* four attempts.                                                          *)
C11_Original_ScenarioAnyInteger ==
    InScenario =>
        /\ Len(consumed) >= 1 => Wrote(1, RejectionLine(self))
        /\ ScenarioTail

(* C11 amended: with a signed integer target (i32), predicate value > 0    *)
(* and message "must be positive", the lines "-3", "0", "abc", "5" produce *)
(* "Error: must be positive" for "-3" and for "0", a format-error message  *)
(* for "abc", and then read returns 5 after exactly four attempts.  With   *)
(* the unsigned target of the repository (u32), "-3" does not parse: it    *)
(* produces a format-error message, and the rest is the same.              *)
C11_ScenarioSignedInteger ==
    InScenario =>
        /\ Len(consumed) >= 1 =>
              IF T = "i32"
              THEN /\ Wrote(1, <<"Error: ", "must be positive", "\n">>)
                   /\ HandedTo(1, IntValue("i32", -3))
              ELSE /\ Wrote(1, <<"Error de formato: ", "invalid digit found in string", "\n">>)
                   /\ InvocationsOf(1) = {}
        /\ ScenarioTail

\* the scenario has run to its end for an i32
C11_Witness ==
    /\ InScenario
    /\ T = "i32"
    /\ pc = "returned"
    /\ Len(out) = 7
    /\ result = <<IntValue("i32", 5)>>

\* every attempt of the current read has failed, and every flush succeeded
OnlyFailures ==
    /\ attempts > 0
    /\ ~flushFailed
    /\ \A k \in Attempts : Arm(self, Outcome(k)) # "return"

\* a line that parses and is accepted is still waiting in standard input
GoodLineWaiting ==
    \E j \in (stdin.pos + 1)..Len(stdin.script) : GoodLine(stdin.script[j])

(* C13: the loop has no retry limit and exits only on success: after any   *)
(* number of failed attempts in a row read has neither returned nor ended  *)
(* the process and goes on prompting; and when a line that parses and is   *)
(* accepted is still to come, read eventually returns, provided the        *)
(* flushes succeed.                                                        *)
C13_RetriesUntilSuccess ==
    /\ [] ( OnlyFailures =>
              /\ pc \in {"loop", "flushed"}
              /\ result = <<>>
              /\ (pc = "loop" /\ MayAttempt) => ENABLED read_prompt )
    /\ ( (pc \in {"loop", "flushed"} /\ GoodLineWaiting)
            ~> (pc = "returned" \/ flushFailed) )

\* three failed attempts in a row, and the fourth line still to come
C13_Witness ==
    /\ OnlyFailures
    /\ attempts = 3
    /\ pc = "loop"
    /\ GoodLineWaiting

\* the input lines in a history of read_line calls: end-of-stream is none
RECURSIVE LinesOf(_)
LinesOf(events) ==
    IF events = <<>> THEN <<>>
    ELSE IF Head(events).kind = "eof" THEN LinesOf(Tail(events))
    ELSE <<Head(events)>> \o LinesOf(Tail(events))

\* the lines taken by the first n completed reads, in order
RECURSIVE LinesOfDone(_)
LinesOfDone(n) ==
    IF n = 0 THEN <<>> ELSE LinesOfDone(n - 1) \o LinesOf(done[n].consumed)

\* a completed read returned the value of the last line it read, which the
\* predicate accepts, and none of its earlier lines would have returned
OwnLinesDecide(d) ==
    LET n == Len(d.consumed)
    IN  /\ n > 0
        /\ d.result = _read(d.T, d.consumed[n]).val
        /\ d.result # <<>>
        /\ Apply(d.self.predicate, d.result[1])
        /\ \A k \in 1..(n - 1) : Arm(d.self, _read(d.T, d.consumed[k])) # "return"

(* C14: read leaves the configuration unchanged, failed attempts included, *)
(* so the same configuration can be read again; each call of read starts   *)
(* a fresh cycle of attempts that consumes new lines of the input, and     *)
(* its result does not depend on what earlier calls returned.              *)
C14_ReadLeavesConfiguration ==
    /\ [][ (attempts' # attempts \/ consumed' # consumed \/ done' # done) =>
              (self' = self /\ calls' = calls /\ T' = T) ]_vars
    /\ [][ done' # done =>
              (attempts' = 0 /\ consumed' = <<>> /\ out' = <<>> /\ result' = <<>>) ]_vars
    /\ [] ( /\ \A i \in DOMAIN done : done[i].self = self /\ OwnLinesDecide(done[i])
            /\ LinesOfDone(Len(done)) \o LinesOf(consumed)
                  = SubSeq(stdin.script, 1, stdin.pos) )

\* the same struct read twice, under a predicate and a message of the
\* caller: 42 returned first, then 7
C14_Witness ==
    /\ Len(done) = 1
    /\ pc = "returned"
    /\ Len(calls) = 2
    /\ self.predicate = "positive"
    /\ done[1].result = <<IntValue("u32", 42)>>
    /\ result = <<IntValue("u32", 7)>>

\* the characters a write puts on standard output
Rendered(text) ==
    IF Len(text) = 3 THEN text[1] \o text[2] \o text[3] ELSE text[1] \o text[2]

\* the error texts _read can return, and rejection messages of any kind
ParseErrorTexts ==
    { "cannot parse integer from empty string",
      "invalid digit found in string",
      "stream did not contain valid UTF-8" }
RejectionMessages ==
    ScriptErrMsgs \cup ErrMsgs \cup ParseErrorTexts
        \cup {"Entrada inválida", "", "de formato: ", " de formato: "}
        \cup {"de formato: " \o e : e \in ParseErrorTexts}

(* C16: the output of a conversion failure and the output of a validation  *)
(* failure are always distinguishable: whatever the rejection message and  *)
(* the parse-error text, the line printed on a format error differs from   *)
(* the line printed on a rejection.                                        *)
C16_FailuresDistinguishable ==
    \A k \in Attempts : \A i \in MessagesOf(k) :
        IF Outcome(k).ok
        THEN \A e \in ParseErrorTexts :
                Rendered(out[i].text) # Rendered(FormatErrorLine(e))
        ELSE \A m \in RejectionMessages :
                Rendered(out[i].text)
                    # Rendered(RejectionLine([self EXCEPT !.err_msg = m]))

\* one read printed a format error and then a rejection whose message is
\* the text of that very error
C16_Witness ==
    /\ self.err_msg = "invalid digit found in string"
    /\ Len(out) >= 4
    /\ out[2].text = <<"Error de formato: ", "invalid digit found in string", "\n">>
    /\ out[4].text = <<"Error: ", "invalid digit found in string", "\n">>

\* the prompts of main, in the order of its statements
MainPrompts == <<"Enter ciclo", "Enter name", "Enter age", "Enter weight">>
MainTypes == <<"String", "String", "u32", "f32">>

\* every prompt among the writes is the prompt msg
PromptsAre(writes, msg) ==
    \A i \in DOMAIN writes :
        Len(writes[i].text) = 2 => writes[i].text = <<msg, ": ">>

(* C12: in the demonstration program the four reads are strictly           *)
(* sequential in the order ciclo, name, age, weight: the prompt of a read  *)
(* is never written before the read before it has returned, all its        *)
(* retries made; every input line is consumed by exactly one read; the     *)
(* summary is printed once, and only after all four reads have returned.   *)
C12_MainReadsInOrder ==
    /\ Len(done) <= 4
    /\ \A i \in DOMAIN done :
          /\ done[i].T = MainTypes[i]
          /\ done[i].self.msg = MainPrompts[i]
          /\ done[i].out # <<>>
          /\ PromptsAre(done[i].out, MainPrompts[i])
          /\ OwnLinesDecide(done[i])
    /\ out # <<>> =>
          /\ Len(done) < 4
          /\ T = MainTypes[Len(done) + 1]
          /\ PromptsAre(out, MainPrompts[Len(done) + 1])
    /\ LinesOfDone(Len(done)) \o LinesOf(consumed) = SubSeq(stdin.script, 1, stdin.pos)
    /\ Len(summary) <= 1
    /\ pc = "exit" <=> Len(summary) = 1
    /\ Len(summary) = 1 =>
          /\ Len(done) = 4
          /\ out = <<>>
          /\ ~ENABLED NextMain
          /\ summary[1] = <<"Nombre: ", done[2].result[1],
                            "\nEdad: ", done[3].result[1],
                            "\nPeso: ", done[4].result[1],
                            "\nCiclo: ", done[1].result[1], "\n">>

\* the summary is printed after a word was refused as an age: five lines,
\* each consumed by one read
C12_Witness ==
    /\ pc = "exit"
    /\ stdin.pos = 5
    /\ Len(done[3].consumed) = 2
    /\ done[3].result = <<IntValue("u32", 25)>>
    /\ done[4].result = <<FloatValue(314, 2)>>

====
